---------------------------- MODULE Spec2Model ----------------------------
(***************************************************************************)
(* Model of util/mirrors.go: the package resolution engine of the obshell  *)
(* SDK.  A call (Mirror.search, Mirror.Search, Mirror.Download,            *)
(* SearchPackage, DownloadPackage) runs sequentially; the model cuts it at *)
(* the points where it waits for a network response, and keeps a log of    *)
(* the requests issued so far.                                             *)
(*                                                                         *)
(* Strings the code only compares for equality (names, flags, error texts) *)
(* are TLA+ strings.  Strings the code takes apart (epoch, version,        *)
(* release) are sequences of one-character strings, so that strings.Split, *)
(* strings.Index and the version comparator are computed, not assumed.     *)
(***************************************************************************)
EXTENDS Integers, Sequences, FiniteSets, TLC

(***************************************************************************)
(* Bounds of the model.                                                    *)
(***************************************************************************)
\* longest package index served to a single-mirror search (SpecRank)
MaxPkgs == 3
\* longest package index served by a mirror in the multi-mirror model (Spec)
MaxFanPkgs == 2

(***************************************************************************)
(* Program constants.                                                      *)
(***************************************************************************)
\* len(OB_MIRRORS): the community-stable and the development-kit mirror
NumMirrors == 2

X86_64 == "x86_64"
AARCH64 == "aarch64"
NONLSE == <<"n", "o", "n", "l", "s", "e">>
REMOTE_REPOMD_FILE == "/repodata/repomd.xml"

(***************************************************************************)
(* Strings as character sequences.                                         *)
(***************************************************************************)
\* the characters in use, in byte order (digits before lower-case letters)
Chars == <<"0", "1", "2", "3", "4", "5", "6", "7", "8", "9",
           "e", "l", "n", "o", "s">>

Rank(c) == CHOOSE i \in 1..Len(Chars) : Chars[i] = c

IsDigit(c) == Rank(c) <= 10

\* strings.Index(s, sub): 0-based position of the first occurrence, else -1
Index(s, sub) ==
    LET hits == { i \in 1..(Len(s) - Len(sub) + 1) :
                    SubSeq(s, i, i + Len(sub) - 1) = sub }
    IN  IF hits = {} THEN -1
        ELSE (CHOOSE i \in hits : \A j \in hits : i <= j) - 1

\* strings.Split(s, "."): never empty, Split("") = [""]
RECURSIVE SplitFrom(_, _, _)
SplitFrom(s, i, cur) ==
    IF i > Len(s) THEN <<cur>>
    ELSE IF s[i] = "." THEN <<cur>> \o SplitFrom(s, i + 1, <<>>)
    ELSE SplitFrom(s, i + 1, Append(cur, s[i]))

Split(s) == SplitFrom(s, 1, <<>>)

(***************************************************************************)
(* internal/util.CmpVersionString, which is not among the sources: modelled *)
(* from the design's description of the version comparator.  Segments are   *)
(* compared pairwise, numerically when both are all digits and byte-wise    *)
(* otherwise; when every aligned pair is equal the string with more         *)
(* segments is the greater.  The result is -1, 0 or 1.                      *)
(***************************************************************************)
AllDigits(seg) == Len(seg) > 0 /\ \A i \in 1..Len(seg) : IsDigit(seg[i])

RECURSIVE SegNum(_)
SegNum(seg) ==
    IF Len(seg) = 0 THEN 0
    ELSE 10 * SegNum(SubSeq(seg, 1, Len(seg) - 1)) + (Rank(seg[Len(seg)]) - 1)

Sign(x, y) == IF x > y THEN 1 ELSE IF x < y THEN -1 ELSE 0

RECURSIVE LexCmp(_, _)
LexCmp(a, b) ==
    IF Len(a) = 0 \/ Len(b) = 0 THEN Sign(Len(a), Len(b))
    ELSE IF a[1] # b[1] THEN Sign(Rank(a[1]), Rank(b[1]))
    ELSE LexCmp(Tail(a), Tail(b))

SegCmp(a, b) ==
    IF AllDigits(a) /\ AllDigits(b) THEN Sign(SegNum(a), SegNum(b))
    ELSE LexCmp(a, b)

RECURSIVE SegsCmp(_, _)
SegsCmp(as, bs) ==
    IF Len(as) = 0 \/ Len(bs) = 0 THEN Sign(Len(as), Len(bs))
    ELSE IF SegCmp(as[1], bs[1]) # 0 THEN SegCmp(as[1], bs[1])
    ELSE SegsCmp(Tail(as), Tail(bs))

CmpVersionString(a, b) ==
    IF Len(a) = 0 /\ Len(b) = 0 THEN 0 ELSE SegsCmp(Split(a), Split(b))

(***************************************************************************)
(* Package records (packageInfo) and queries (PackageEntry).               *)
(***************************************************************************)
Pkg(name, epoch, version, release, provides, href, base) ==
    [name |-> name, epoch |-> epoch, version |-> version, release |-> release,
     provides |-> provides, href |-> href, base |-> base]

Entry(name, flags, epoch, version, release) ==
    [name |-> name, flags |-> flags, epoch |-> epoch, version |-> version,
     release |-> release]

V420 == <<"4", ".", "2", ".", "0">>
V421 == <<"4", ".", "2", ".", "1">>
V419 == <<"4", ".", "1", ".", "9">>
V4100 == <<"4", ".", "1", "0", ".", "0">>
R1el7 == <<"1", ".", "e", "l", "7">>
R2el7 == <<"2", ".", "e", "l", "7">>
R10el7 == <<"1", "0", ".", "e", "l", "7">>
R1nonlse == <<"1", "."  >> \o NONLSE \o <<".", "e", "l", "7">>
R1el7nonlse == R1el7 \o <<".">> \o NONLSE
E0 == <<"0">>
E1 == <<"1">>

\* the records a served package index is made of
P420 == Pkg("obshell", E0, V420, R1el7, <<"EQ">>, "obshell-4.2.0-1.el7.rpm", "")
P421 == Pkg("obshell", E0, V421, R1el7, <<"EQ">>, "obshell-4.2.1-1.el7.rpm", "")
P419 == Pkg("obshell", E0, V419, R2el7, <<"GE", "EQ">>, "obshell-4.1.9-2.el7.rpm", "")
P421nonlse == Pkg("obshell", E0, V421, R1nonlse, <<"EQ">>,
                  "obshell-4.2.1-1.nonlse.el7.rpm", "")
P421late == Pkg("obshell", E0, V421, R1el7nonlse, <<"GE">>,
                "obshell-4.2.1-1.el7.nonlse.rpm", "")
P421r10 == Pkg("obshell", E0, V421, R10el7, <<"EQ">>, "obshell-4.2.1-10.el7.rpm", "")
P4100 == Pkg("obshell", E0, V4100, R2el7, <<"EQ">>, "obshell-4.10.0-2.el7.rpm", "")
PEpoch == Pkg("obshell", E1, V419, R1el7, <<>>, "obshell-1:4.1.9-1.el7.rpm", "")
PAgent == Pkg("obagent", E0, V421, R1el7, <<"EQ">>, "obagent-4.2.1-1.el7.rpm",
              "https://cdn.example/")

Pkgs == {P420, P421, P419, P421nonlse, P421late, P421r10, P4100, PEpoch, PAgent}

FanPkgs == {P421, P421nonlse, PEpoch, PAgent}

SeqsUpTo(S, n) == UNION { [1..k -> S] : k \in 0..n }

\* queries
Entries ==
    { Entry("obshell", "", <<>>, <<>>, <<>>),
      Entry("obshell", "", <<>>, V421, <<>>),
      Entry("obshell", "EQ", <<>>, <<>>, <<>>),
      Entry("obshell", "", E0, <<>>, R1el7),
      Entry("obshell", "GE", E0, V421, R1el7nonlse),
      Entry("obagent", "", <<>>, <<>>, <<>>),
      Entry("", "", <<>>, V421, <<>>) }

FanEntries ==
    { Entry("obshell", "", <<>>, <<>>, <<>>),
      Entry("obshell", "EQ", <<>>, V421, <<>>),
      Entry("obagent", "", <<>>, <<>>, <<>>),
      Entry("", "", <<>>, <<>>, <<>>) }

\* a mirror's architecture and LSE preference (Mirror.arch, Mirror.nonLse)
Configs == [arch : {X86_64, AARCH64}, nonLse : BOOLEAN]

\* what init() gives the mirrors of OB_MIRRORS: nonLse = !supoortLse, and
\* supoortLse is true on every architecture but AArch64
InitConfigs == { c \in Configs : c.nonLse => c.arch = AARCH64 }

(***************************************************************************)
(* Mirror.search: the filter loop.                                          *)
(***************************************************************************)
\* the loop body indexes pkg.Format.Provides[0] without a length check
FilterPanicsAt(pkg, entry) ==
    /\ pkg.name = entry.name
    /\ entry.flags # ""
    /\ Len(pkg.provides) = 0

FilterPanics(packages, entry) ==
    \E i \in 1..Len(packages) : FilterPanicsAt(packages[i], entry)

Keeps(pkg, entry) ==
    /\ pkg.name = entry.name
    /\ ~(entry.flags # "" /\ entry.flags # pkg.provides[1])
    /\ ~(entry.epoch # <<>> /\ entry.epoch # pkg.epoch)
    /\ ~(entry.version # <<>> /\ entry.version # pkg.version)
    /\ ~(entry.release # <<>> /\ entry.release # pkg.release)

RECURSIVE FilterLoop(_, _)
FilterLoop(packages, entry) ==
    IF Len(packages) = 0 THEN <<>>
    ELSE IF Keeps(Head(packages), entry)
         THEN <<Head(packages)>> \o FilterLoop(Tail(packages), entry)
         ELSE FilterLoop(Tail(packages), entry)

(***************************************************************************)
(* Mirror.sortPackages: the less function and sort.Slice.                   *)
(***************************************************************************)
\* Less with the version compared the wrong way round
LessVersionAscending(c, a, b) ==
    IF CmpVersionString(a.epoch, b.epoch) # 0
        THEN CmpVersionString(a.epoch, b.epoch) > 0
    ELSE IF CmpVersionString(a.version, b.version) # 0
        THEN CmpVersionString(a.version, b.version) < 0
    ELSE IF CmpVersionString(Split(a.release)[1], Split(b.release)[1]) # 0
        THEN CmpVersionString(Split(a.release)[1], Split(b.release)[1]) > 0
    ELSE IF c.nonLse
        THEN Index(a.release, NONLSE) > Index(b.release, NONLSE)
    ELSE IF c.arch = AARCH64
        THEN Index(a.release, NONLSE) < Index(b.release, NONLSE)
    ELSE TRUE

\* Less with the two marker comparisons exchanged
LessMarkerExchanged(c, a, b) ==
    IF CmpVersionString(a.epoch, b.epoch) # 0
        THEN CmpVersionString(a.epoch, b.epoch) > 0
    ELSE IF CmpVersionString(a.version, b.version) # 0
        THEN CmpVersionString(a.version, b.version) > 0
    ELSE IF CmpVersionString(Split(a.release)[1], Split(b.release)[1]) # 0
        THEN CmpVersionString(Split(a.release)[1], Split(b.release)[1]) > 0
    ELSE IF c.nonLse
        THEN Index(a.release, NONLSE) < Index(b.release, NONLSE)
    ELSE IF c.arch = AARCH64
        THEN Index(a.release, NONLSE) > Index(b.release, NONLSE)
    ELSE TRUE

Less(cfg, a, b) ==
    IF CmpVersionString(a.epoch, b.epoch) # 0
        THEN CmpVersionString(a.epoch, b.epoch) > 0
    ELSE IF CmpVersionString(a.version, b.version) # 0
        THEN CmpVersionString(a.version, b.version) > 0
    ELSE IF CmpVersionString(Split(a.release)[1], Split(b.release)[1]) # 0
        THEN CmpVersionString(Split(a.release)[1], Split(b.release)[1]) > 0
    ELSE IF cfg.nonLse
        THEN Index(a.release, NONLSE) > Index(b.release, NONLSE)
    ELSE IF cfg.arch = AARCH64
        THEN Index(a.release, NONLSE) < Index(b.release, NONLSE)
    ELSE TRUE

Swap(s, i, j) == [s EXCEPT ![i] = s[j], ![j] = s[i]]

\* sort.Slice on a slice of at most 6 elements is an insertion sort in every
\* Go release: element i moves left while less(i, i-1) holds
RECURSIVE InsertAt(_, _, _)
InsertAt(cfg, s, j) ==
    IF j > 1 /\ Less(cfg, s[j], s[j - 1])
    THEN InsertAt(cfg, Swap(s, j, j - 1), j - 1)
    ELSE s

RECURSIVE SortFrom(_, _, _)
SortFrom(cfg, s, i) ==
    IF i > Len(s) THEN s ELSE SortFrom(cfg, InsertAt(cfg, s, i), i + 1)

sortPackages(cfg, packages) == SortFrom(cfg, packages, 2)

\* the match list Mirror.search returns for a parsed index (when the filter
\* loop does not panic)
searchMatch(cfg, packages, entry) == sortPackages(cfg, FilterLoop(packages, entry))

(***************************************************************************)
(* State of one call.                                                       *)
(***************************************************************************)
VARIABLES
    pc,       \* position of the call: idle, search, repomd, primary, download,
              \* artifact, done, panic
    op,       \* the operation called
    entry,    \* the PackageEntry argument
    destDir,  \* the destination directory argument: is it absolute, and what
              \* os.Stat finds there
    cfg,      \* arch and nonLse of the mirror(s)
    k,        \* the mirror being consulted (its position in OB_MIRRORS)
    net,      \* the network requests issued so far, in order
    hist,     \* what each Mirror.search of the call has returned so far, in
              \* order, with the package index it was served (history)
    pick,     \* the record handed to downloadPackage
    result    \* what the call returned

vars == <<pc, op, entry, destDir, cfg, k, net, hist, pick, result>>

Mirrors == 1..NumMirrors

MirrorUrl(m) == <<"mirror", m>>

NoResult == [kind |-> "none", err |-> "", list |-> <<>>, path |-> ""]
Ok(list) == [kind |-> "ok", err |-> "", list |-> list, path |-> ""]
OkPath(path) == [kind |-> "ok", err |-> "", list |-> <<>>, path |-> path]
Err(e) == [kind |-> "err", err |-> e, list |-> <<>>, path |-> ""]
Panic == [kind |-> "panic", err |-> "", list |-> <<>>, path |-> ""]

NoDir == [abs |-> TRUE, stat |-> "dir"]
DestDirs == [abs : BOOLEAN, stat : {"absent", "dir", "file", "error"}]

ErrEmptyName == "package name is empty"
ErrNoPrimary == "primary repomd not found"
ErrNoSuchPackage == "no such package"
ErrNotAbsolute == "destination is not an absolute path"
ErrNotDirectory == "destination is not a directory"

Request(m, kind, base, href) ==
    [mirror |-> m, kind |-> kind, base |-> base, href |-> href]

\* the location of the descriptor's entry of type "primary"
PrimaryLocation == [base |-> "", href |-> "repodata/primary.xml.gz"]

\* Mirror.getLocalUrl: the location's own base URL wins over the mirror's
getLocalUrl(m, base, href) ==
    IF base # "" THEN <<base, href>> ELSE <<MirrorUrl(m), href>>

Init ==
    /\ pc = "idle"
    /\ op = "none"
    /\ entry = Entry("", "", <<>>, <<>>, <<>>)
    /\ destDir = NoDir
    /\ cfg = [arch |-> X86_64, nonLse |-> FALSE]
    /\ k = 1
    /\ net = <<>>
    /\ hist = <<>>
    /\ pick = PAgent
    /\ result = NoResult

(***************************************************************************)
(* The calls.                                                               *)
(***************************************************************************)
Call(o, m, c, e, d) ==
    /\ pc = "idle"
    /\ pc' = "search"
    /\ op' = o
    /\ k' = m
    /\ cfg' = c
    /\ entry' = e
    /\ destDir' = d
    /\ UNCHANGED <<net, hist, pick, result>>

\* Mirror.search on a mirror of any configuration
CallMirrorSearch ==
    \E m \in Mirrors, c \in Configs, e \in Entries : Call("search", m, c, e, NoDir)

\* Mirror.Search
CallSearch ==
    \E m \in Mirrors, c \in InitConfigs, e \in FanEntries :
        Call("Search", m, c, e, NoDir)

\* Mirror.Download
CallDownload ==
    \E m \in Mirrors, c \in InitConfigs, e \in FanEntries, d \in DestDirs :
        Call("Download", m, c, e, d)

\* SearchPackage: the loop starts at the first mirror of OB_MIRRORS
CallSearchPackage ==
    \E c \in InitConfigs, e \in FanEntries : Call("SearchPackage", 1, c, e, NoDir)

\* DownloadPackage
CallDownloadPackage ==
    \E c \in InitConfigs, e \in FanEntries, d \in DestDirs :
        Call("DownloadPackage", 1, c, e, d)

(***************************************************************************)
(* What the caller of Mirror.search does with what it returns.              *)
(***************************************************************************)
Return(r) ==
    /\ pc' = (IF r.kind = "panic" THEN "panic" ELSE "done")
    /\ result' = r
    /\ UNCHANGED <<k, pick>>

StartDownload(pkg) ==
    /\ pc' = "download"
    /\ pick' = pkg
    /\ UNCHANGED <<k, result>>

\* NextMirror that gives up after the mirror at hand
NextMirrorGiveUp == Return(Err(ErrNoSuchPackage))

NextMirror ==
    IF k < NumMirrors
    THEN /\ pc' = "search"
         /\ k' = k + 1
         /\ UNCHANGED <<pick, result>>
    ELSE Return(Err(ErrNoSuchPackage))

\* Mirror.Search: an empty match list becomes an error
MirrorSearchReturns(r) ==
    IF r.kind # "ok" THEN r
    ELSE IF Len(r.list) = 0 THEN Err(ErrNoSuchPackage)
    ELSE r

\* one Mirror.search that has returned r; parsed tells whether it got as far
\* as a parsed package index
Returned(m, parsed, packages, r) ==
    [mirror |-> m, parsed |-> parsed, packages |-> packages, ret |-> r]

\* Continue that takes a failed mirror for one without a match
ContinueSkipErrors(r) ==
    CASE op = "search" -> Return(r)
      [] op = "Search" -> Return(MirrorSearchReturns(r))
      [] op = "Download" ->
            IF MirrorSearchReturns(r).kind # "ok"
            THEN Return(MirrorSearchReturns(r))
            ELSE StartDownload(r.list[1])
      [] op = "SearchPackage" ->
            IF r.kind = "panic" THEN Return(r)
            ELSE IF Len(r.list) > 0 THEN Return(r)
            ELSE NextMirror
      [] op = "DownloadPackage" ->
            IF r.kind = "panic" THEN Return(r)
            ELSE IF Len(r.list) > 0 THEN StartDownload(r.list[1])
            ELSE NextMirror

Continue(r) ==
    CASE op = "search" -> Return(r)
      [] op = "Search" -> Return(MirrorSearchReturns(r))
      [] op = "Download" ->
            IF MirrorSearchReturns(r).kind # "ok"
            THEN Return(MirrorSearchReturns(r))
            ELSE StartDownload(r.list[1])
      [] op = "SearchPackage" ->
            IF r.kind # "ok" THEN Return(r)
            ELSE IF Len(r.list) > 0 THEN Return(r)
            ELSE NextMirror
      [] op = "DownloadPackage" ->
            IF r.kind # "ok" THEN Return(r)
            ELSE IF Len(r.list) > 0 THEN StartDownload(r.list[1])
            ELSE NextMirror

AfterSearch(h) ==
    /\ hist' = Append(hist, h)
    /\ Continue(h.ret)

\* Mirror.search returns before it has a package index
Fails(r) == AfterSearch(Returned(k, FALSE, <<>>, r))

(***************************************************************************)
(* Mirror.search, cut at its two requests.                                  *)
(***************************************************************************)
\* SearchBegin without the name check
SearchBeginNoNameCheck ==
    /\ pc = "search"
    /\ pc' = "repomd"
    /\ net' = Append(net, Request(k, "repomd", MirrorUrl(k), REMOTE_REPOMD_FILE))
    /\ UNCHANGED <<k, pick, result, hist>>
    /\ UNCHANGED <<op, entry, destDir, cfg>>

\* the name check, then getRepoMD's GET of the descriptor
SearchBegin ==
    /\ pc = "search"
    /\ IF entry.name = ""
       THEN /\ Fails(Err(ErrEmptyName))
            /\ UNCHANGED net
       ELSE /\ pc' = "repomd"
            /\ net' = Append(net, Request(k, "repomd", MirrorUrl(k), REMOTE_REPOMD_FILE))
            /\ UNCHANGED <<k, pick, result, hist>>
    /\ UNCHANGED <<op, entry, destDir, cfg>>

\* the descriptor's response: a transport error; a body without any XML
\* element, which leaves repo nil (the Unmarshal error is dropped) so that
\* repo.Data panics; no entry of type primary; a location whose base URL does
\* not parse; or a primary location, which getRepoPrimary then requests
RepomdOutcomes == {"transport", "noElement", "noPrimary", "badLocation", "ok"}

RepomdResponse ==
    /\ pc = "repomd"
    /\ \E o \in RepomdOutcomes :
        CASE o = "transport" -> Fails(Err("transport")) /\ UNCHANGED net
          [] o = "noElement" -> Fails(Panic) /\ UNCHANGED net
          [] o = "noPrimary" -> Fails(Err(ErrNoPrimary)) /\ UNCHANGED net
          [] o = "badLocation" -> Fails(Err("url")) /\ UNCHANGED net
          [] o = "ok" ->
                /\ pc' = "primary"
                /\ net' = Append(net, Request(k, "primary",
                        getLocalUrl(k, PrimaryLocation.base, PrimaryLocation.href)[1],
                        getLocalUrl(k, PrimaryLocation.base, PrimaryLocation.href)[2]))
                /\ UNCHANGED <<k, pick, result, hist>>
    /\ UNCHANGED <<op, entry, destDir, cfg>>

\* what Mirror.search makes of a parsed index
searchResult(c, packages, e) ==
    IF FilterPanics(packages, e) THEN Panic ELSE Ok(searchMatch(c, packages, e))

\* the index's response: a transport, gzip or XML error, or a package list,
\* which is filtered and sorted
PrimaryResponse(indexes) ==
    /\ pc = "primary"
    /\ \/ \E e \in {"transport", "gzip", "xml"} : Fails(Err(e))
       \/ \E packages \in indexes :
            AfterSearch(Returned(k, TRUE, packages, searchResult(cfg, packages, entry)))
    /\ UNCHANGED <<op, entry, destDir, cfg, net>>

PrimaryResponseFan == PrimaryResponse(SeqsUpTo(FanPkgs, MaxFanPkgs))

PrimaryResponseRank == PrimaryResponse(SeqsUpTo(Pkgs, MaxPkgs))

(***************************************************************************)
(* Mirror.downloadPackage, cut at its request.                              *)
(***************************************************************************)
\* the checks of the destination, then the GET of the artifact
DownloadBegin ==
    /\ pc = "download"
    /\ \/ /\ ~destDir.abs
          /\ Return(Err(ErrNotAbsolute))
          /\ UNCHANGED net
       \/ /\ destDir.abs
          /\ destDir.stat = "absent"
          /\ Return(Err("mkdir"))
          /\ UNCHANGED net
       \/ /\ destDir.abs
          /\ destDir.stat = "file"
          /\ Return(Err(ErrNotDirectory))
          /\ UNCHANGED net
       \/ /\ destDir.abs
          /\ destDir.stat = "error"
          /\ Return(Panic)
          /\ UNCHANGED net
       \/ /\ destDir.abs
          /\ destDir.stat \in {"absent", "dir"}
          /\ \/ /\ pick.base # ""
                /\ Return(Err("url"))
                /\ UNCHANGED net
             \/ /\ pc' = "artifact"
                /\ net' = Append(net, Request(k, "artifact",
                                              getLocalUrl(k, pick.base, pick.href)[1],
                                              getLocalUrl(k, pick.base, pick.href)[2]))
                /\ UNCHANGED <<k, pick, result>>
    /\ UNCHANGED <<op, entry, destDir, cfg, hist>>

\* the artifact's response, and the write of the file
ArtifactResponse ==
    /\ pc = "artifact"
    /\ \/ Return(Err("transport"))
       \/ Return(Err("write"))
       \/ Return(OkPath(<<destDir, pick.href>>))
    /\ UNCHANGED <<op, entry, destDir, cfg, net, hist>>

Next ==
    \/ CallSearch
    \/ CallDownload
    \/ CallSearchPackage
    \/ CallDownloadPackage
    \/ SearchBegin
    \/ RepomdResponse
    \/ PrimaryResponseFan
    \/ DownloadBegin
    \/ ArtifactResponse

Spec == Init /\ [][Next]_vars

NextRank ==
    \/ CallMirrorSearch
    \/ SearchBegin
    \/ RepomdResponse
    \/ PrimaryResponseRank

SpecRank == Init /\ [][NextRank]_vars

(***************************************************************************)
(* Properties of the multi-mirror calls (Spec).                             *)
(***************************************************************************)
FanOp == op \in {"SearchPackage", "DownloadPackage"}

NonEmpty(i) == hist[i].ret.kind = "ok" /\ Len(hist[i].ret.list) > 0

Empty(i) == hist[i].ret.kind = "ok" /\ Len(hist[i].ret.list) = 0

\* the lowest-index mirror whose match list is non-empty
FirstHit == CHOOSE i \in 1..Len(hist) : NonEmpty(i) /\ \A j \in 1..(i - 1) : ~NonEmpty(j)

ArtifactRequests == { i \in 1..Len(net) : net[i].kind = "artifact" }

\* C1: in SearchPackage and DownloadPackage the mirrors are consulted strictly
\* in list order; an error returned by the search on mirror i ends the call
\* with that error and no mirror after i is contacted; a search on mirror i
\* that returns zero matches and no error is followed by mirror i + 1.
C1_OrderedFailFast ==
    FanOp =>
        /\ \A i \in 1..Len(hist) : hist[i].mirror = i
        /\ \A i \in 1..Len(net) : net[i].mirror <= Len(hist) + 1
        /\ \A i \in 1..(Len(net) - 1) : net[i].mirror <= net[i + 1].mirror
        /\ \A i \in 1..Len(hist) :
              hist[i].ret.kind = "err" =>
                  /\ i = Len(hist)
                  /\ pc = "done"
                  /\ result = hist[i].ret
                  /\ \A j \in 1..Len(net) : net[j].mirror <= i
        /\ \A i \in 1..Len(hist) :
              (Empty(i) /\ i < NumMirrors) =>
                  \/ Len(hist) > i
                  \/ /\ k = i + 1
                     /\ pc \in {"search", "repomd", "primary"}
                     /\ pc # "search" => net[Len(net)].mirror = i + 1

\* mirror 1 had no match, mirror 2 was consulted and failed
C1_Witness ==
    /\ op = "SearchPackage"
    /\ pc = "done"
    /\ Len(hist) = 2
    /\ Empty(1)
    /\ hist[2].ret = Err("gzip")
    /\ result = Err("gzip")
    /\ Len(net) = 4

\* C2: when no mirror errors, SearchPackage returns exactly the ranked match
\* list of the lowest-index mirror whose match list is non-empty, and
\* DownloadPackage downloads the top-ranked record of that mirror through that
\* mirror; "no such package" is returned if and only if every mirror of
\* OB_MIRRORS was consulted and each yielded an empty match list.
C2_FirstNonEmptyMirror ==
    FanOp =>
        /\ (pc = "done" /\ result = Err(ErrNoSuchPackage))
              <=> (Len(hist) = NumMirrors /\ \A i \in 1..NumMirrors : Empty(i))
        /\ (\A i \in 1..Len(hist) : hist[i].ret.kind = "ok") =>
              /\ \A i \in 1..Len(hist) :
                    /\ hist[i].parsed
                    /\ hist[i].ret.list = searchMatch(cfg, hist[i].packages, entry)
              /\ (\E i \in 1..Len(hist) : NonEmpty(i)) =>
                    /\ FirstHit = Len(hist)
                    /\ k = FirstHit
                    /\ op = "SearchPackage" =>
                          /\ pc = "done"
                          /\ result = Ok(hist[FirstHit].ret.list)
                    /\ op = "DownloadPackage" =>
                          /\ pc \in {"download", "artifact", "done", "panic"}
                          /\ pick = hist[FirstHit].ret.list[1]
                          /\ \A i \in ArtifactRequests :
                                /\ i = Len(net)
                                /\ net[i] = Request(FirstHit, "artifact",
                                        getLocalUrl(FirstHit, pick.base, pick.href)[1],
                                        pick.href)
                          /\ (pc = "done" /\ result.kind = "ok") =>
                                /\ result.path = <<destDir, pick.href>>
                                /\ ArtifactRequests # {}

\* mirror 1 had no match, mirror 2 had two, and the better one was downloaded
C2_Witness ==
    /\ op = "DownloadPackage"
    /\ pc = "done"
    /\ result.kind = "ok"
    /\ Len(hist) = 2
    /\ Empty(1)
    /\ Len(hist[2].ret.list) = 2
    /\ hist[2].packages # hist[2].ret.list
    /\ result.path = <<destDir, hist[2].ret.list[1].href>>

\* C3: a download (Mirror.Download, DownloadPackage) of a named package into a
\* destination that is not an absolute path fails with the invalid-destination
\* error, and no network request is issued before it fails.
C3_NoRequestBeforeInvalidDest ==
    (op \in {"Download", "DownloadPackage"} /\ entry.name # "" /\ ~destDir.abs) =>
        /\ net = <<>>
        /\ pc \in {"search", "download", "done"}
        /\ pc = "done" => result = Err(ErrNotAbsolute)

\* C4: every search or download called with an empty package name fails with
\* "package name is empty", and no mirror is contacted before it fails.
C4_EmptyNameFailsFirst ==
    (op # "none" /\ entry.name = "") =>
        /\ net = <<>>
        /\ pc \in {"search", "done"}
        /\ pc = "done" => result = Err(ErrEmptyName)

C4_Witness ==
    /\ op = "DownloadPackage"
    /\ entry.name = ""
    /\ pc = "done"
    /\ result = Err(ErrEmptyName)

(***************************************************************************)
(* Properties of Mirror.search (SpecRank).                                  *)
(***************************************************************************)
Elems(s) == { s[i] : i \in 1..Len(s) }

\* Mirror.search got a parsed package index
Parsed == op = "search" /\ Len(hist) = 1 /\ hist[1].parsed

\* Mirror.search returned a match list
Listed == Parsed /\ pc = "done" /\ result.kind = "ok"

\* the filter as the design states it
Wanted(r, e) ==
    /\ r.name = e.name
    /\ e.flags = "" \/ (Len(r.provides) > 0 /\ r.provides[1] = e.flags)
    /\ e.epoch = <<>> \/ e.epoch = r.epoch
    /\ e.version = <<>> \/ e.version = r.version
    /\ e.release = <<>> \/ e.release = r.release

\* the key chain: epoch, version, leading segment of the release
KeyCmp(a, b) ==
    IF CmpVersionString(a.epoch, b.epoch) # 0
        THEN CmpVersionString(a.epoch, b.epoch)
    ELSE IF CmpVersionString(a.version, b.version) # 0
        THEN CmpVersionString(a.version, b.version)
    ELSE CmpVersionString(Split(a.release)[1], Split(b.release)[1])

\* KeyCmp of every two records an index can hold, computed once
KeyOrder == [a \in Pkgs, b \in Pkgs |-> KeyCmp(a, b)]

\* position of the LSE marker in the release of every record, computed once
Marker == [r \in Pkgs |-> Index(r.release, NONLSE)]

TiedWith(s, r) == LET T(x) == KeyOrder[x, r] = 0 IN SelectSeq(s, T)

\* C5: for every package index and every query with a non-empty name, the set
\* of records Mirror.search returns is exactly the set of index records that
\* satisfy the filter.
C5_FilterExact ==
    Parsed =>
        /\ pc = "done"
        /\ result.kind = "ok"
        /\ Elems(result.list) = { r \in Elems(hist[1].packages) : Wanted(r, entry) }

\* C6: the list Mirror.search returns is ordered best-first by the key chain
\* (epoch, version, leading segment of the release): of two records of the
\* list the one with the strictly greater key comes earlier, and the first
\* record carries the greatest key of all matching records.
C6_RankedBestFirst ==
    Listed =>
        /\ \A i, j \in 1..Len(result.list) :
              KeyOrder[result.list[i], result.list[j]] > 0 => i < j
        /\ \A r \in Elems(hist[1].packages) :
              (Wanted(r, entry) /\ Len(result.list) > 0) => KeyOrder[result.list[1], r] >= 0

\* the index lists 4.2.0, 4.2.1, 4.1.9 and the list returned starts with 4.2.1
C6_Witness ==
    /\ Listed
    /\ hist[1].packages = <<P420, P421, P419>>
    /\ result.list = <<P421, P420, P419>>

C8_TiesKeepIndexOrder ==
    (Listed /\ ~cfg.nonLse /\ cfg.arch # AARCH64) =>
        \A r \in Elems(result.list) :
            TiedWith(result.list, r) = TiedWith(FilterLoop(hist[1].packages, entry), r)

\* C9: the less function of sortPackages is a strict ordering of the records
\* it sorts, for every mirror configuration.
C9_LessIsStrict ==
    Listed =>
        \A a, b \in Elems(result.list) :
            /\ ~Less(cfg, a, a)
            /\ ~(Less(cfg, a, b) /\ Less(cfg, b, a))

\* C10: for every parsed package index and every query, Mirror.search ends
\* with a match list or an error value, and never crashes.
C10_SearchNeverCrashes ==
    Parsed => (pc = "done" /\ result.kind \in {"ok", "err"})

=============================================================================
